---- MODULE Spec2Model ----
(***************************************************************************)
(* Water reminder bot (main.py): the configuration read at import, main(), *)
(* WaterReminderBot.start_reminders / send_message / send_water_reminder,  *)
(* and the job that schedule.every(N).minutes.do(...) registers and        *)
(* schedule.run_pending() fires.  Time is counted in whole seconds since   *)
(* the process started; the wall clock is StartClock + now.                *)
(***************************************************************************)
EXTENDS Integers, Sequences, FiniteSets, TLC

\* ---------------------------------------------------------------- bounds
MaxTime == 310          \* seconds of process time explored
MaxHttpSecs == 2        \* longest round trip of one requests.post explored
MaxFires == 6           \* reminders fired before the exploration stops
StartClock == 86280     \* wall clock at process start, seconds of day (23:58:00)

\* ------------------------------------------------------- program constants
DefaultInterval == 60   \* os.environ.get('REMINDER_INTERVAL', 60)
SleepSecs == 1          \* time.sleep(1)
SecondsPerMinute == 60  \* the job's unit: .minutes
StatusOK == 200         \* response.status_code == 200

VARIABLES
    environ,          \* os.environ: each name maps to <<>> (unset) or <<value>>
    pc,               \* position of the single thread of control
    now,              \* seconds elapsed since the process started
    jobs,             \* number of jobs in the default scheduler
    nextRun,          \* the job's next_run
    regTime,          \* time at which the job was registered (-1 before)
    lastReturn,       \* time at which the last requests.post returned (-1 before)
    lastFire,         \* time at which run_pending last started the job (-1 before)
    fires,            \* number of times run_pending has started the job
    posts,            \* number of requests.post calls made
    welcomes,         \* number of send_message(welcome_message) calls made
    inFlight,         \* number of requests.post calls that have not yet returned
    caller,           \* who is inside send_message: "welcome", "reminder", "none"
    lastMessage,      \* the argument of the last send_message call
    sentBodies,       \* templates that send_water_reminder has sent so far
    lastLog           \* the last line printed

vars == <<environ, pc, now, jobs, nextRun, regTime, lastReturn, lastFire, fires,
          posts, welcomes, inFlight, caller, lastMessage, sentBodies, lastLog>>

\* ------------------------------------------------------------ environment
\* Decimal strings REMINDER_INTERVAL is given, as sequences of characters.
IntervalStrings == { <<"-", "1">>, <<"0">>, <<"1">>, <<"2">> }
TokenValues == { <<>>, <<"">>, <<"123:ABC">> }
ChatValues == { <<>>, <<"">>, <<"987">> }

DigitValue(c) ==
    CASE c = "0" -> 0 [] c = "1" -> 1 [] c = "2" -> 2 [] c = "3" -> 3
      [] c = "4" -> 4 [] c = "5" -> 5 [] c = "6" -> 6 [] c = "7" -> 7
      [] c = "8" -> 8 [] c = "9" -> 9

RECURSIVE DigitsValue(_)
DigitsValue(s) ==
    IF s = <<>> THEN 0
    ELSE 10 * DigitsValue(SubSeq(s, 1, Len(s) - 1)) + DigitValue(s[Len(s)])

\* int(<decimal string>)
ParseInt(s) ==
    IF s[1] = "-" THEN 0 - DigitsValue(Tail(s)) ELSE DigitsValue(s)

\* os.environ.get(name) is None (here <<>>) or the value; `not v` is true for
\* None and for the empty string.
Falsy(v) == IF v = <<>> THEN TRUE ELSE v[1] = ""

BOT_TOKEN == environ.BOT_TOKEN
CHAT_ID == environ.CHAT_ID
REMINDER_INTERVAL ==
    IF environ.REMINDER_INTERVAL = <<>> THEN DefaultInterval
    ELSE ParseInt(environ.REMINDER_INTERVAL[1])

ConfigMissingBoth(token, chat) == Falsy(token) /\ Falsy(chat)
ConfigMissing(token, chat) == Falsy(token) \/ Falsy(chat)

\* ---------------------------------------------------------------- messages
messages == <<
    "Time to drink water! Stay hydrated!",
    "Hydration check! Drink a glass of water now!",
    "Your body needs water! Take a sip!",
    "Water break time! Keep yourself healthy!",
    "Reminder: Drink water for better health!" >>

WelcomeBody == "Water Reminder Bot Activated!"
NoMessage == [prefix |-> <<>>, body |-> ""]

RandomChoiceOrNothing(seq) == { seq[i] : i \in 1..Len(seq) } \cup { "" }
\* random.choice(seq): the values it may return
RandomChoice(seq) == { seq[i] : i \in 1..Len(seq) }

\* datetime.now().strftime("%H:%M") for the wall clock t (seconds): <<HH, MM>>
Strftime(t) == << (t \div 3600) % 24, (t \div 60) % 60 >>

\* f"<b>{current_time}</b>\n{message}"
FullMessage(current_time, message) == [prefix |-> current_time, body |-> message]

WallClock(t) == StartClock + t

\* ---------------------------------------------------------------- schedule
PeriodOnly(t, interval) == interval * SecondsPerMinute
TwoPeriods(t, interval) == t + 2 * interval * SecondsPerMinute
\* Job._schedule_next_run: next_run = now + timedelta(minutes=interval)
ScheduleNextRun(t, interval) == t + interval * SecondsPerMinute

ShouldRunEarly(t, next_run) == t + SecondsPerMinute >= next_run
\* Job.should_run
ShouldRun(t, next_run) == t >= next_run

\* ------------------------------------------------------------ send_message
\* What requests.post produces: a status code, or Raised for a transport
\* exception (timeout, DNS, connection refused).
Raised == -1
Responses == {StatusOK, 401, 500, Raised}

\* The line send_message prints for a response.
LogLine(response) ==
    IF response = Raised THEN "error_sending"
    ELSE IF response = StatusOK THEN "sent" ELSE "failed"

SendMessagePropagates(who, response) ==
    IF response = Raised THEN "stopped_error"
    ELSE IF who = "welcome" THEN "check" ELSE "job_return"
SendMessageRetries(who, response) ==
    IF response # StatusOK THEN (IF who = "welcome" THEN "welcome" ELSE "job")
    ELSE IF who = "welcome" THEN "check" ELSE "job_return"
\* Where control goes when send_message returns: always back to its caller,
\* start_reminders (the loop comes next) or send_water_reminder (the job ends).
SendMessageReturn(who, response) ==
    IF who = "welcome" THEN "check" ELSE "job_return"

\* --------------------------------------------------------------- positions
LoopPcs == {"check", "job", "sleep"}
SendPcs == {"post", "job_return"}
StartedPcs == {"start", "register_hung", "welcome"} \cup LoopPcs \cup SendPcs
StoppedPcs == {"exit_config", "stopped_user", "stopped_error"}

Init ==
    /\ environ \in [BOT_TOKEN : TokenValues, CHAT_ID : ChatValues,
                    REMINDER_INTERVAL : {<<>>} \cup { <<s>> : s \in IntervalStrings }]
    /\ pc = "main"
    /\ now = 0
    /\ jobs = 0
    /\ nextRun = 0
    /\ regTime = -1
    /\ lastReturn = -1
    /\ lastFire = -1
    /\ fires = 0
    /\ posts = 0
    /\ welcomes = 0
    /\ inFlight = 0
    /\ caller = "none"
    /\ lastMessage = NoMessage
    /\ sentBodies = {}
    /\ lastLog = "none"

\* main(): the safety check; the bot is not constructed when it fails.
MainConfigMissing ==
    /\ pc = "main"
    /\ ConfigMissing(BOT_TOKEN, CHAT_ID)
    /\ pc' = "exit_config"
    /\ lastLog' = "config_required"
    /\ UNCHANGED <<environ, now, jobs, nextRun, regTime, lastReturn, lastFire, fires,
                   posts, welcomes, inFlight, caller, lastMessage, sentBodies>>

\* main(): bot = WaterReminderBot(...); try: bot.start_reminders() up to the
\* startup prints.
MainStart ==
    /\ pc = "main"
    /\ ~ConfigMissing(BOT_TOKEN, CHAT_ID)
    /\ pc' = "start"
    /\ lastLog' = "started"
    /\ UNCHANGED <<environ, now, jobs, nextRun, regTime, lastReturn, lastFire, fires,
                   posts, welcomes, inFlight, caller, lastMessage, sentBodies>>

\* schedule.every(REMINDER_INTERVAL).minutes.do(self.send_water_reminder):
\* the job is appended with next_run one period from now.
Register ==
    /\ pc = "start"
    /\ jobs' = jobs + 1
    /\ nextRun' = ScheduleNextRun(now, REMINDER_INTERVAL)
    /\ regTime' = now
    /\ pc' = "welcome"
    /\ UNCHANGED <<environ, now, lastReturn, lastFire, fires, posts, welcomes,
                   inFlight, caller, lastMessage, sentBodies, lastLog>>

\* The same call with a period that is not positive.  The schedule releases
\* that advance next_run by the period until it is in the future never get
\* there: with a period of zero the call does not return, with a negative one
\* the date arithmetic overflows and the call raises before the job is
\* appended.  (Releases that add the period once take Register.)
RegisterHangs ==
    /\ pc = "start"
    /\ REMINDER_INTERVAL = 0
    /\ pc' = "register_hung"
    /\ UNCHANGED <<environ, now, jobs, nextRun, regTime, lastReturn, lastFire, fires,
                   posts, welcomes, inFlight, caller, lastMessage, sentBodies,
                   lastLog>>

RegisterRaises ==
    /\ pc = "start"
    /\ REMINDER_INTERVAL < 0
    /\ pc' = "stopped_error"
    /\ lastLog' = "error"
    /\ UNCHANGED <<environ, now, jobs, nextRun, regTime, lastReturn, lastFire, fires,
                   posts, welcomes, inFlight, caller, lastMessage, sentBodies>>

BeginPostAsync(who, message) ==
    /\ posts' = posts + 1
    /\ inFlight' = inFlight + 1
    /\ caller' = who
    /\ lastMessage' = message
    /\ pc' = IF who = "welcome" THEN "check" ELSE "job_return"

\* send_message up to the point where requests.post blocks.
BeginPost(who, message) ==
    /\ posts' = posts + 1
    /\ inFlight' = inFlight + 1
    /\ caller' = who
    /\ lastMessage' = message
    /\ pc' = "post"

\* self.send_message(welcome_message)
SendWelcome ==
    /\ pc = "welcome"
    /\ welcomes' = welcomes + 1
    /\ BeginPost("welcome", [prefix |-> <<>>, body |-> WelcomeBody])
    /\ UNCHANGED <<environ, now, jobs, nextRun, regTime, lastReturn, lastFire, fires,
                   sentBodies, lastLog>>

\* requests.post returns a response or raises a transport exception after d
\* seconds; send_message prints one line and returns to its caller.
PostReturns ==
    /\ pc = "post"
    /\ \E d \in 0..MaxHttpSecs, response \in Responses :
        /\ now + d <= MaxTime
        /\ now' = now + d
        /\ lastReturn' = now + d
        /\ lastLog' = LogLine(response)
        /\ pc' = SendMessageReturn(caller, response)
    /\ inFlight' = inFlight - 1
    /\ caller' = "none"
    /\ UNCHANGED <<environ, jobs, nextRun, regTime, lastFire, fires, posts, welcomes,
                   lastMessage, sentBodies>>

\* schedule.run_pending(): the job is started when it is due.
RunPendingDue ==
    /\ pc = "check"
    /\ jobs > 0
    /\ ShouldRun(now, nextRun)
    /\ fires < MaxFires
    /\ fires' = fires + 1
    /\ lastFire' = now
    /\ pc' = "job"
    /\ UNCHANGED <<environ, now, jobs, nextRun, regTime, lastReturn, posts, welcomes,
                   inFlight, caller, lastMessage, sentBodies, lastLog>>

\* schedule.run_pending(): nothing is due.
RunPendingIdle ==
    /\ pc = "check"
    /\ ~(jobs > 0 /\ ShouldRun(now, nextRun))
    /\ pc' = "sleep"
    /\ UNCHANGED <<environ, now, jobs, nextRun, regTime, lastReturn, lastFire, fires,
                   posts, welcomes, inFlight, caller, lastMessage, sentBodies, lastLog>>

\* send_water_reminder: pick a template, format the time, send.
SendWaterReminder ==
    /\ pc = "job"
    /\ \E message \in RandomChoice(messages) :
        /\ BeginPost("reminder", FullMessage(Strftime(WallClock(now)), message))
        /\ sentBodies' = sentBodies \cup {message}
    /\ UNCHANGED <<environ, now, jobs, nextRun, regTime, lastReturn, lastFire, fires,
                   welcomes, lastLog>>

\* Job.run after job_func returned: the next run is scheduled from now, and
\* run_pending returns to the loop.
JobReturn ==
    /\ pc = "job_return"
    /\ nextRun' = ScheduleNextRun(now, REMINDER_INTERVAL)
    /\ pc' = "sleep"
    /\ UNCHANGED <<environ, now, jobs, regTime, lastReturn, lastFire, fires, posts,
                   welcomes, inFlight, caller, lastMessage, sentBodies, lastLog>>

\* time.sleep(1)
Sleep ==
    /\ pc = "sleep"
    /\ now + SleepSecs <= MaxTime
    /\ now' = now + SleepSecs
    /\ pc' = "check"
    /\ UNCHANGED <<environ, jobs, nextRun, regTime, lastReturn, lastFire, fires, posts,
                   welcomes, inFlight, caller, lastMessage, sentBodies, lastLog>>

InterruptSwallowedInSend(at) ==
    IF at = "post" THEN [pc |-> "sleep", log |-> "error_sending"]
    ELSE [pc |-> "stopped_user", log |-> "stopped_by_user"]
\* Where a KeyboardInterrupt raised at position `at` is handled: it is not an
\* Exception, so send_message's handler lets it pass and main's
\* `except KeyboardInterrupt` prints and returns.
OnKeyboardInterrupt(at) == [pc |-> "stopped_user", log |-> "stopped_by_user"]

\* KeyboardInterrupt anywhere inside bot.start_reminders().
Interrupt ==
    /\ pc \in StartedPcs
    /\ pc' = OnKeyboardInterrupt(pc).pc
    /\ lastLog' = OnKeyboardInterrupt(pc).log
    /\ inFlight' = 0
    /\ caller' = "none"
    /\ UNCHANGED <<environ, now, jobs, nextRun, regTime, lastReturn, lastFire, fires,
                   posts, welcomes, lastMessage, sentBodies>>

\* An exception raised outside send_message's try (by the scheduler or the
\* sleep): main's `except Exception` prints it and returns.
UncaughtError ==
    /\ pc \in {"start", "check", "sleep", "job_return"}
    /\ pc' = "stopped_error"
    /\ lastLog' = "error"
    /\ UNCHANGED <<environ, now, jobs, nextRun, regTime, lastReturn, lastFire, fires,
                   posts, welcomes, inFlight, caller, lastMessage, sentBodies>>

Next ==
    \/ MainConfigMissing
    \/ MainStart
    \/ Register
    \/ RegisterHangs
    \/ RegisterRaises
    \/ SendWelcome
    \/ PostReturns
    \/ RunPendingDue
    \/ RunPendingIdle
    \/ SendWaterReminder
    \/ JobReturn
    \/ Sleep
    \/ Interrupt
    \/ UncaughtError

Spec == Init /\ [][Next]_vars

TypeOK ==
    /\ pc \in {"main"} \cup StartedPcs \cup StoppedPcs
    /\ now \in 0..MaxTime
    /\ jobs \in 0..1
    /\ inFlight \in 0..1
    /\ caller \in {"none", "welcome", "reminder"}

\* ------------------------------------------------------------- properties
\* The polling loop is running: a schedule check, the job it started (with
\* the reminder's HTTP call), or the sleep.
InLoop ==
    \/ pc \in {"check", "job", "job_return", "sleep"}
    \/ pc = "post" /\ caller = "reminder"

Failure == {"failed", "error_sending"}
Templates == { messages[i] : i \in 1..Len(messages) }
Period == REMINDER_INTERVAL * SecondsPerMinute
ValidConfig ==
    /\ BOT_TOKEN \notin {<<>>, <<"">>}
    /\ CHAT_ID \notin {<<>>, <<"">>}
\* C1: with BOT_TOKEN and CHAT_ID present, the welcome message is sent exactly
\* once, its delivery attempt has returned before the first schedule check,
\* and it is never sent again.
C1_WelcomeOnceBeforeLoop ==
    /\ [](welcomes <= 1)
    /\ [](welcomes = 1 => ValidConfig)
    /\ [](InLoop => welcomes = 1 /\ lastReturn >= 0 /\ posts >= 1)
    /\ [](pc = "post" /\ caller = "welcome" => fires = 0)
    /\ [][welcomes' # welcomes
            => (pc = "welcome" /\ welcomes = 0 /\ welcomes' = 1)]_vars

C1_Witness ==
    pc = "check" /\ fires >= 2 /\ welcomes = 1 /\ posts = 3 /\ REMINDER_INTERVAL >= 1

\* C2 as stated: for N >= 1, at least N minutes pass between two firings, and
\* no window of N minutes plus one poll period passes without a firing,
\* whatever the HTTP calls of earlier firings took.
C2_Original ==
    /\ [][REMINDER_INTERVAL >= 1 /\ fires >= 1 /\ fires' = fires + 1
            => now' - lastFire >= Period]_vars
    /\ [](REMINDER_INTERVAL >= 1 /\ InLoop
            => now - (IF fires = 0 THEN regTime ELSE lastFire) <= Period + SleepSecs)

\* C2 amended: for N >= 1, at least N minutes pass between two firings, and
\* no window of N minutes plus one poll period passes without a firing when
\* the window is measured from the return of the latest HTTP call (welcome or
\* reminder): the time an HTTP call takes is added to the gap.
C2_FiresOncePerIntervalAfterReturn ==
    /\ [][REMINDER_INTERVAL >= 1 /\ fires >= 1 /\ fires' = fires + 1
            => now' - lastFire >= Period]_vars
    /\ [](REMINDER_INTERVAL >= 1 /\ InLoop => now - lastReturn <= Period + SleepSecs)
    /\ [](REMINDER_INTERVAL >= 1 /\ pc = "sleep" => now < nextRun)

C2_Witness ==
    /\ REMINDER_INTERVAL >= 1
    /\ fires >= 2
    /\ pc = "job"
    /\ now - lastReturn = Period
    /\ now > 2 * Period

\* C3: a delivery failure (a status other than 200, or a transport exception)
\* returns to the caller of send_message and leaves the loop running with its
\* job registered and rescheduled, so that the next tick fires.
C3_FailureDoesNotStopLoop ==
    /\ [](lastLog \in Failure => pc \in StartedPcs /\ jobs = 1)
    /\ [][pc = "post" /\ lastLog' \in Failure
            => (pc' = (IF caller = "welcome" THEN "check" ELSE "job_return")
                 /\ jobs' = 1 /\ posts' = posts)]_vars
    /\ [][pc = "job_return" /\ pc' \notin StoppedPcs
            => (pc' = "sleep" /\ nextRun' = now + Period)]_vars
    /\ [](pc = "check" /\ lastLog \in Failure /\ now >= nextRun /\ fires < MaxFires
            => ENABLED <<pc' = "job" /\ fires' = fires + 1 /\ Next>>_vars)

C3_Witness == lastLog \in Failure /\ pc = "job" /\ fires >= 2 /\ REMINDER_INTERVAL >= 1

\* C4: when BOT_TOKEN or CHAT_ID is unset or empty, no HTTP call is made, no
\* job is scheduled and the polling loop is never entered.
C4_MissingConfigDoesNothing ==
    ~ValidConfig =>
        /\ posts = 0
        /\ welcomes = 0
        /\ jobs = 0
        /\ inFlight = 0
        /\ pc \in {"main", "exit_config"}

C4_Witness ==
    /\ pc = "exit_config"
    /\ BOT_TOKEN = <<"123:ABC">>
    /\ CHAT_ID = <<"">>
    /\ lastLog = "config_required"

\* C5: one POST per send, never a retry: the POST attempts made are the
\* welcome plus one per fired tick, counted whenever no job is under way.
C5_OnePostPerTick ==
    /\ [](posts <= 1 + fires)
    /\ [](InLoop \/ pc \in {"stopped_user", "stopped_error"} => fires <= posts)
    /\ [](pc \in {"check", "sleep", "job_return"} => posts = 1 + fires)
    /\ [](pc = "post" => posts = 1 + fires)
    /\ [](pc = "job" => posts = fires)
    /\ [][posts' # posts
            => (posts' = posts + 1 /\ pc \in {"welcome", "job"} /\ pc' = "post")]_vars

C5_Witness ==
    /\ pc = "sleep" /\ fires = 2 /\ posts = 3
    /\ lastLog \in Failure /\ REMINDER_INTERVAL >= 1

\* C6: every reminder that is sent is the time prefix followed by one of the
\* five templates; each template is sent in some execution.
C6_ReminderIsTemplate ==
    /\ Cardinality(Templates) = 5
    /\ sentBodies \subseteq Templates
    /\ posts >= 2 => lastMessage.body \in Templates /\ lastMessage.body \in sentBodies
    /\ posts = 1 => lastMessage.body = WelcomeBody
    /\ posts = fires + 1 /\ fires >= 1 =>
        /\ Len(lastMessage.prefix) = 2
        /\ lastMessage.prefix[1] \in 0..23
        /\ lastMessage.prefix[2] \in 0..59
        /\ lastMessage.prefix[1] * 60 + lastMessage.prefix[2]
             = ((StartClock + lastFire) \div 60) % 1440

C6_Witness == sentBodies = Templates /\ REMINDER_INTERVAL >= 1 /\ pc = "post"

\* C7: once started, the bot leaves the loop only by an interrupt (possible
\* at every point, the HTTP call included) or an uncaught error, each with
\* its line printed; the stopped state is final.
C7_StopsOnlyByInterruptOrError ==
    /\ [](pc \in StartedPcs
            => ENABLED <<pc' = "stopped_user" /\ lastLog' = "stopped_by_user" /\ Next>>_vars)
    /\ [][(pc \in StartedPcs) /\ pc' \notin StartedPcs
            => ((pc' = "stopped_user" /\ lastLog' = "stopped_by_user")
                 \/ (pc' = "stopped_error" /\ lastLog' = "error"))]_vars
    /\ [][(pc \in StoppedPcs) => FALSE]_vars
    /\ [](pc \in StoppedPcs => inFlight = 0 /\ ~ENABLED <<Next>>_vars)

C7_Witness ==
    /\ pc = "stopped_user" /\ lastLog = "stopped_by_user"
    /\ REMINDER_INTERVAL >= 1 /\ posts = 2 /\ fires = 1 /\ lastReturn < lastFire

\* C8 as stated: the welcome delivery attempt precedes the registration of
\* the job, so the first reminder is due one interval after the welcome send
\* returned.
C8_Original ==
    /\ jobs >= 1 => welcomes >= 1
    /\ jobs >= 1 /\ fires = 0 /\ pc \in {"check", "sleep"} => nextRun = lastReturn + Period

\* C8 amended: the job is registered first and the welcome message is sent
\* afterwards, so the first reminder is due one interval after the
\* registration, which is not later than the return of the welcome send.
C8_RegisterThenWelcome ==
    /\ welcomes >= 1 => jobs = 1 /\ regTime >= 0
    /\ pc = "welcome" => jobs = 1 /\ welcomes = 0 /\ posts = 0
    /\ jobs >= 1 /\ fires = 0 => nextRun = regTime + Period
    /\ lastReturn >= 0 => regTime <= lastReturn

C8_Witness ==
    /\ pc = "check" /\ fires = 0 /\ welcomes = 1 /\ jobs = 1
    /\ lastReturn > regTime
    /\ nextRun < lastReturn + Period

\* C9: while the loop is running the interval in use is at least 1, for every
\* integer REMINDER_INTERVAL is given.
C9_IntervalAtLeastOne == InLoop => REMINDER_INTERVAL >= 1

\* C10: the loop is sequential with one job: at most one send in flight, no
\* schedule check or second send while an HTTP call has not returned, each
\* iteration one schedule check then one sleep of a second, one job registered.
C10_SequentialOneJob ==
    /\ [](inFlight <= 1)
    /\ [](inFlight = 1 <=> pc = "post")
    /\ [](InLoop \/ pc \in {"welcome", "post"} => jobs = 1)
    /\ [][pc = "post" => (fires' = fires /\ posts' = posts /\ inFlight' = 0)]_vars
    /\ [][pc = "check" => pc' \in {"sleep", "job"} \cup StoppedPcs]_vars
    /\ [][pc = "job" => pc' \in {"post"} \cup StoppedPcs]_vars
    /\ [][pc = "job_return" => pc' \in {"sleep"} \cup StoppedPcs]_vars
    /\ [][pc = "sleep"
            => ((pc' = "check" /\ now' = now + SleepSecs) \/ pc' \in StoppedPcs)]_vars

C10_Witness ==
    /\ pc = "sleep" /\ fires >= 2 /\ jobs = 1 /\ inFlight = 0
    /\ lastReturn > lastFire /\ REMINDER_INTERVAL >= 1
====
